---- MODULE Spec2Model ----
(***************************************************************************)
(* The vote service of src/vote/app.py: the / handler (session token,     *)
(* queue publication, live counters), the aggregation cycle               *)
(* update_database_metrics and its background loop metrics_updater, and   *)
(* the /metrics, /stats and /healthz endpoints, run by one background     *)
(* thread and a pool of request threads over a queue store (redis) and a  *)
(* relational store (postgres) that may each be up or down.               *)
(***************************************************************************)
EXTENDS Integers, Sequences, FiniteSets, TLC

\* ------------------------------------------------------------------ bounds

\* POST requests to / that the model accepts in one run.
MaxPosts == 1
\* A request to / that will be given a new session is accepted while
\* session_count is below MaxSessions.
MaxSessions == 2
\* getrandbits draws are taken from 0..MaxDraw.
MaxDraw == 17

\* ------------------------------------------------------------- vocabulary

BgThread == "bg"
ReqThreads == {"r1"}
Threads == {BgThread} \cup ReqThreads

\* Values a stored or submitted vote can have; "c" stands for any value that
\* is neither of the two option keys.
VoteValues == <<"a", "b", "c">>
VoteSet == {VoteValues[i] : i \in 1..Len(VoteValues)}

\* request.form without a 'vote' field.
NoVote == "none"

NoCookie == [present |-> FALSE, value |-> <<>>]
HasCookie(tok) == [present |-> TRUE, value |-> tok]

NoSnap == [cats |-> 0, dogs |-> 0, total |-> 0]
NoResp == [kind |-> "none"]

VARIABLES
    redisUp,                    \* the queue store answers
    dbUp,                       \* the relational store answers
    dbHung,                     \* the relational store accepts and never answers
    queue,                      \* the redis list 'votes'
    rows,                       \* table votes: vote value -> number of rows
    session_count,
    active_sessions,
    votes_counter,
    redis_connection_status,
    database_connection_status,
    database_votes_by_option,
    total_votes_in_db,
    issued,                     \* voter_id cookies the service has set
    nposts,                     \* POST requests to / accepted so far
    pc,                         \* each thread's position
    req,                        \* the request a thread is handling
    voter_id,                   \* hello's local voter_id
    vote,                       \* hello's local vote
    loaded,                     \* session_count as read by session_count += 1
    snap,                       \* cats_votes, dogs_votes, total_votes locals
    redis_status,               \* healthz's local redis_status
    resp                        \* the response a thread returns

shared == <<queue, rows, session_count, active_sessions, votes_counter,
            redis_connection_status, database_connection_status,
            database_votes_by_option, total_votes_in_db, issued, nposts>>
locals == <<pc, req, voter_id, vote, loaded, snap, redis_status, resp>>
vars == <<redisUp, dbUp, dbHung, shared, locals>>

\* ------------------------------------------------------- pure functions

\* hex(n) without its '0x' prefix, as a sequence of hex digits.
RECURSIVE HexDigits(_)
HexDigits(n) == IF n < 16 THEN <<n>> ELSE Append(HexDigits(n \div 16), n % 16)

\* hex(random.getrandbits(64))[2:-1]: the digits of hex(n) without the last.
NewVoterId(n) == SubSeq(HexDigits(n), 1, Len(HexDigits(n)) - 1)

\* SELECT vote, COUNT(*) FROM votes GROUP BY vote: one row per stored value.
RECURSIVE GroupBy(_, _)
GroupBy(tbl, i) ==
    IF i > Len(VoteValues) THEN <<>>
    ELSE IF tbl[VoteValues[i]] > 0
         THEN <<(<<VoteValues[i], tbl[VoteValues[i]]>>)>> \o GroupBy(tbl, i + 1)
         ELSE GroupBy(tbl, i + 1)

\* The loop with a plain else: a row of any other value is taken for dogs.
RECURSIVE CountRows_ElseDogs(_, _)
CountRows_ElseDogs(rs, acc) ==
    IF rs = <<>> THEN acc
    ELSE LET v == Head(rs)[1]
             n == Head(rs)[2]
         IN CountRows_ElseDogs(Tail(rs),
                [total |-> acc.total + n,
                 cats  |-> IF v = "a" THEN n ELSE acc.cats,
                 dogs  |-> IF v = "a" THEN acc.dogs ELSE n])

\* The loop with a total that counts the rows of the two option keys only.
RECURSIVE CountRows_NamedTotal(_, _)
CountRows_NamedTotal(rs, acc) ==
    IF rs = <<>> THEN acc
    ELSE LET v == Head(rs)[1]
             n == Head(rs)[2]
         IN CountRows_NamedTotal(Tail(rs),
                [total |-> IF v \in {"a", "b"} THEN acc.total + n ELSE acc.total,
                 cats  |-> IF v = "a" THEN n ELSE acc.cats,
                 dogs  |-> IF v = "a" THEN acc.dogs
                           ELSE IF v = "b" THEN n ELSE acc.dogs])

\* The for loop over the fetched rows.
RECURSIVE CountRows(_, _)
CountRows(rs, acc) ==
    IF rs = <<>> THEN acc
    ELSE LET v == Head(rs)[1]
             n == Head(rs)[2]
         IN CountRows(Tail(rs),
                [total |-> acc.total + n,
                 cats  |-> IF v = "a" THEN n ELSE acc.cats,
                 dogs  |-> IF v = "a" THEN acc.dogs
                           ELSE IF v = "b" THEN n ELSE acc.dogs])

\* The vote type without its 'unknown' bucket.
VoteType_TwoWay(v) == IF v = "a" THEN "a" ELSE "b"

\* vote_type = 'a' if vote == 'a' else 'b' if vote == 'b' else 'unknown'
VoteType(v) == IF v = "a" THEN "a" ELSE IF v = "b" THEN "b" ELSE "unknown"

\* ---------------------------------------------------------------- state

Requests ==
    [route : {"/"}, method : {"POST"},
     cookie : {NoCookie} \cup {HasCookie(tok) : tok \in issued},
     form : VoteSet \cup {NoVote}]
    \cup [route : {"/"}, method : {"GET"},
          cookie : {NoCookie} \cup {HasCookie(tok) : tok \in issued},
          form : {NoVote}]
    \cup [route : {"/metrics", "/stats", "/healthz"}, method : {"GET"},
          cookie : {NoCookie}, form : {NoVote}]

NoReq == [route |-> "none", method |-> "GET", cookie |-> NoCookie, form |-> NoVote]

Init ==
    /\ redisUp \in BOOLEAN
    /\ dbUp \in BOOLEAN
    /\ dbHung = FALSE
    /\ queue = <<>>
    /\ rows = [v \in VoteSet |-> 0]
    /\ session_count = 0
    /\ active_sessions = 0
    /\ votes_counter = [k \in {"a", "b", "unknown"} |-> 0]
    /\ redis_connection_status = 0
    /\ database_connection_status = 0
    /\ database_votes_by_option = [k \in {"a", "b"} |-> 0]
    /\ total_votes_in_db = 0
    /\ issued = {}
    /\ nposts = 0
    /\ pc = [t \in Threads |-> IF t = BgThread THEN "upd_connect" ELSE "idle"]
    /\ req = [t \in Threads |-> NoReq]
    /\ voter_id = [t \in Threads |-> <<>>]
    /\ vote = [t \in Threads |-> NoVote]
    /\ loaded = [t \in Threads |-> 0]
    /\ snap = [t \in Threads |-> NoSnap]
    /\ redis_status = [t \in Threads |-> "none"]
    /\ resp = [t \in Threads |-> NoResp]


\* ------------------------------------------------------------- helpers

Goto(t, l) == pc' = [pc EXCEPT ![t] = l]

\* Where hello continues once voter_id is resolved (line 168).
AfterSession(t) == IF req[t].method = "POST" THEN "get_redis" ELSE "respond"

\* A background loop that lets a failed cycle end the thread.
AfterUpdate_ExitOnFailure(t) ==
    IF t = BgThread THEN (IF pc[t] = "upd_setTotal" THEN "sleep" ELSE "exit")
    ELSE IF req[t].route = "/" THEN "respond" ELSE "generate"

\* Where a thread continues when update_database_metrics returns: the
\* background loop sleeps, hello renders the page, /metrics generates.
AfterUpdate(t) ==
    IF t = BgThread THEN "sleep"
    ELSE IF req[t].route = "/" THEN "respond" ELSE "generate"

\* A handler returns: the response is kept until the thread is idle again.
Return(t, r) ==
    /\ resp' = [resp EXCEPT ![t] = r]
    /\ Goto(t, "done")

\* get_pg_conn that leaves out the set(0) of its except branch.
get_pg_conn_NoDown == database_connection_status' = 1

\* get_pg_conn's effect on its gauge: 1 on a connection, 0 on a failure.
get_pg_conn == database_connection_status' = (IF dbUp THEN 1 ELSE 0)

\* get_redis's effect on its gauge: connect and ping, 1 or 0.
get_redis == redis_connection_status' = (IF redisUp THEN 1 ELSE 0)

\* ------------------------------------------------------------ requests

\* A request thread takes the next request.
Accept(t) ==
    /\ pc[t] = "idle"
    /\ \E r \in Requests :
        /\ (r.route = "/" /\ r.method = "POST") => nposts < MaxPosts
        /\ (r.route = "/" /\ r.cookie.value = <<>>) => session_count < MaxSessions
        /\ nposts' = IF r.route = "/" /\ r.method = "POST" THEN nposts + 1 ELSE nposts
        /\ req' = [req EXCEPT ![t] = r]
        /\ Goto(t, CASE r.route = "/" -> "hello"
                     [] r.route = "/metrics" -> "upd_connect"
                     [] r.route = "/stats" -> "stats_connect"
                     [] r.route = "/healthz" -> "hz_redis")
    /\ UNCHANGED <<redisUp, dbUp, dbHung, queue, rows, session_count,
                   active_sessions, votes_counter, redis_connection_status,
                   database_connection_status, database_votes_by_option,
                   total_votes_in_db, issued, voter_id, vote, loaded, snap,
                   redis_status, resp>>

\* The response is sent and the thread's locals are gone.
Finish(t) ==
    /\ pc[t] = "done"
    /\ Goto(t, "idle")
    /\ req' = [req EXCEPT ![t] = NoReq]
    /\ voter_id' = [voter_id EXCEPT ![t] = <<>>]
    /\ vote' = [vote EXCEPT ![t] = NoVote]
    /\ loaded' = [loaded EXCEPT ![t] = 0]
    /\ snap' = [snap EXCEPT ![t] = NoSnap]
    /\ redis_status' = [redis_status EXCEPT ![t] = "none"]
    /\ resp' = [resp EXCEPT ![t] = NoResp]
    /\ UNCHANGED <<redisUp, dbUp, dbHung, shared>>

\* ------------------------------------------------------------- hello

\* Lines 160-163: the cookie is kept, or a token is generated and
\* session_count += 1 reads the global.
ResolveSession(t) ==
    /\ pc[t] = "hello"
    /\ LET c == req[t].cookie IN
        IF c.present /\ c.value # <<>>
        THEN /\ voter_id' = [voter_id EXCEPT ![t] = c.value]
             /\ Goto(t, AfterSession(t))
             /\ UNCHANGED loaded
        ELSE \E d \in 0..MaxDraw :
             /\ voter_id' = [voter_id EXCEPT ![t] = NewVoterId(d)]
             /\ loaded' = [loaded EXCEPT ![t] = session_count]
             /\ Goto(t, "sess_store")
    /\ UNCHANGED <<redisUp, dbUp, dbHung, shared, req, vote, snap, redis_status,
                   resp>>

\* Line 163: session_count += 1 writes the global.
SessStore(t) ==
    /\ pc[t] = "sess_store"
    /\ session_count' = loaded[t] + 1
    /\ loaded' = [loaded EXCEPT ![t] = 0]
    /\ Goto(t, "sess_gauge")
    /\ UNCHANGED <<redisUp, dbUp, dbHung, queue, rows, active_sessions,
                   votes_counter, redis_connection_status,
                   database_connection_status, database_votes_by_option,
                   total_votes_in_db, issued, nposts, req, voter_id, vote,
                   snap, redis_status, resp>>

\* Line 164: active_sessions.set(session_count).
SessGauge(t) ==
    /\ pc[t] = "sess_gauge"
    /\ active_sessions' = session_count
    /\ Goto(t, AfterSession(t))
    /\ UNCHANGED <<redisUp, dbUp, dbHung, queue, rows, session_count, votes_counter,
                   redis_connection_status, database_connection_status,
                   database_votes_by_option, total_votes_in_db, issued,
                   nposts, req, voter_id, vote, loaded, snap, redis_status,
                   resp>>

\* Line 172: get_redis(); when it raises, lines 190-192 set the gauge to 0.
HelloGetRedis(t) ==
    /\ pc[t] = "get_redis"
    /\ IF redisUp THEN get_redis ELSE redis_connection_status' = 0
    /\ Goto(t, IF redisUp THEN "form" ELSE "respond")
    /\ UNCHANGED <<redisUp, dbUp, dbHung, queue, rows, session_count,
                   active_sessions, votes_counter,
                   database_connection_status, database_votes_by_option,
                   total_votes_in_db, issued, nposts, req, voter_id, vote,
                   loaded, snap, redis_status, resp>>

\* Lines 173-179: request.form['vote']; a missing field raises, and the
\* handler at lines 190-192 sets the queue gauge to 0.
HelloForm(t) ==
    /\ pc[t] = "form"
    /\ IF req[t].form = NoVote
       THEN /\ redis_connection_status' = 0
            /\ Goto(t, "respond")
            /\ UNCHANGED vote
       ELSE /\ vote' = [vote EXCEPT ![t] = req[t].form]
            /\ Goto(t, "rpush")
            /\ UNCHANGED redis_connection_status
    /\ UNCHANGED <<redisUp, dbUp, dbHung, queue, rows, session_count,
                   active_sessions, votes_counter,
                   database_connection_status, database_votes_by_option,
                   total_votes_in_db, issued, nposts, req, voter_id, loaded,
                   snap, redis_status, resp>>

\* The append with the counter incremented before it, so that a failed
\* append is counted.
HelloRpush_CountFirst(t) ==
    /\ pc[t] = "rpush"
    /\ votes_counter' = [votes_counter EXCEPT ![VoteType(vote[t])] = @ + 1]
    /\ IF redisUp
       THEN /\ queue' = Append(queue, [voter_id |-> voter_id[t], vote |-> vote[t]])
            /\ Goto(t, "upd_connect")
            /\ UNCHANGED redis_connection_status
       ELSE /\ redis_connection_status' = 0
            /\ Goto(t, "respond")
            /\ UNCHANGED queue
    /\ UNCHANGED <<redisUp, dbUp, dbHung, rows, session_count, active_sessions,
                   database_connection_status, database_votes_by_option,
                   total_votes_in_db, issued, nposts, req, voter_id, vote,
                   loaded, snap, redis_status, resp>>

\* The push at the head of the list (lpush) instead of its tail.
HelloRpush_Lpush(t) ==
    /\ pc[t] = "rpush"
    /\ IF redisUp
       THEN /\ queue' = <<[voter_id |-> voter_id[t], vote |-> vote[t]]>> \o queue
            /\ Goto(t, "inc")
            /\ UNCHANGED redis_connection_status
       ELSE /\ redis_connection_status' = 0
            /\ Goto(t, "respond")
            /\ UNCHANGED queue
    /\ UNCHANGED <<redisUp, dbUp, dbHung, rows, session_count, active_sessions,
                   votes_counter, database_connection_status,
                   database_votes_by_option, total_votes_in_db, issued, nposts,
                   req, voter_id, vote, loaded, snap, redis_status, resp>>

\* Line 180: redis.rpush('votes', data); a failure is caught at 190-192.
HelloRpush(t) ==
    /\ pc[t] = "rpush"
    /\ IF redisUp
       THEN /\ queue' = Append(queue, [voter_id |-> voter_id[t], vote |-> vote[t]])
            /\ Goto(t, "inc")
            /\ UNCHANGED redis_connection_status
       ELSE /\ redis_connection_status' = 0
            /\ Goto(t, "respond")
            /\ UNCHANGED queue
    /\ UNCHANGED <<redisUp, dbUp, dbHung, rows, session_count, active_sessions,
                   votes_counter, database_connection_status,
                   database_votes_by_option, total_votes_in_db, issued,
                   nposts, req, voter_id, vote, loaded, snap, redis_status,
                   resp>>

\* The increment for the two option keys only.
HelloInc_KeysOnly(t) ==
    /\ pc[t] = "inc"
    /\ votes_counter' = IF vote[t] \in {"a", "b"}
                        THEN [votes_counter EXCEPT ![vote[t]] = @ + 1]
                        ELSE votes_counter
    /\ Goto(t, "upd_connect")
    /\ UNCHANGED <<redisUp, dbUp, dbHung, queue, rows, session_count,
                   active_sessions, redis_connection_status,
                   database_connection_status, database_votes_by_option,
                   total_votes_in_db, issued, nposts, req, voter_id, vote,
                   loaded, snap, redis_status, resp>>

\* Line 183: votes_counter.labels(vote_type=vote_type).inc(); line 188 then
\* calls update_database_metrics.
HelloInc(t) ==
    /\ pc[t] = "inc"
    /\ votes_counter' = [votes_counter EXCEPT ![VoteType(vote[t])] = @ + 1]
    /\ Goto(t, "upd_connect")
    /\ UNCHANGED <<redisUp, dbUp, dbHung, queue, rows, session_count,
                   active_sessions, redis_connection_status,
                   database_connection_status, database_votes_by_option,
                   total_votes_in_db, issued, nposts, req, voter_id, vote,
                   loaded, snap, redis_status, resp>>

\* Lines 194-202: the page, with the voter_id cookie set on it.
HelloRespond(t) ==
    /\ pc[t] = "respond"
    /\ Return(t, [kind |-> "page", status |-> 200,
                  cookie |-> voter_id[t], vote |-> vote[t]])
    /\ issued' = issued \cup {voter_id[t]}
    /\ UNCHANGED <<redisUp, dbUp, dbHung, queue, rows, session_count,
                   active_sessions, votes_counter, redis_connection_status,
                   database_connection_status, database_votes_by_option,
                   total_votes_in_db, nposts, req, voter_id, vote, loaded,
                   snap, redis_status>>


\* ------------------------------------------- update_database_metrics

\* Line 107: conn = get_pg_conn(); without a connection the function returns.
\* psycopg2.connect is given no connect_timeout: it blocks while the store
\* does not answer.
UpdConnect(t) ==
    /\ pc[t] = "upd_connect"
    /\ ~dbHung
    /\ get_pg_conn
    /\ Goto(t, IF dbUp THEN "upd_query" ELSE AfterUpdate(t))
    /\ UNCHANGED <<redisUp, dbUp, dbHung, queue, rows, session_count,
                   active_sessions, votes_counter, redis_connection_status,
                   database_votes_by_option, total_votes_in_db, issued,
                   nposts, req, voter_id, vote, loaded, snap, redis_status,
                   resp>>

\* A failing query whose exception reaches the caller: in hello the handler
\* of lines 190-192 then sets the queue gauge to 0.
UpdQuery_RaisesToCaller(t) ==
    /\ pc[t] = "upd_query"
    /\ ~dbHung
    /\ IF dbUp
       THEN /\ snap' = [snap EXCEPT ![t] = CountRows(GroupBy(rows, 1), NoSnap)]
            /\ Goto(t, "upd_setA")
            /\ UNCHANGED <<database_connection_status, redis_connection_status>>
       ELSE /\ database_connection_status' = 0
            /\ redis_connection_status' =
                   (IF req[t].route = "/" THEN 0 ELSE redis_connection_status)
            /\ Goto(t, AfterUpdate(t))
            /\ UNCHANGED snap
    /\ UNCHANGED <<redisUp, dbUp, dbHung, queue, rows, session_count,
                   active_sessions, votes_counter, database_votes_by_option,
                   total_votes_in_db, issued, nposts, req, voter_id, vote,
                   loaded, redis_status, resp>>

\* Lines 111-123: the grouped count and the loop over its rows; a failing
\* query is caught at lines 136-138, where conn is not closed. The query has
\* no timeout either.
UpdQuery(t) ==
    /\ pc[t] = "upd_query"
    /\ ~dbHung
    /\ IF dbUp
       THEN /\ snap' = [snap EXCEPT ![t] = CountRows(GroupBy(rows, 1), NoSnap)]
            /\ Goto(t, "upd_setA")
            /\ UNCHANGED database_connection_status
       ELSE /\ database_connection_status' = 0
            /\ Goto(t, AfterUpdate(t))
            /\ UNCHANGED snap
    /\ UNCHANGED <<redisUp, dbUp, dbHung, queue, rows, session_count,
                   active_sessions, votes_counter, redis_connection_status,
                   database_votes_by_option, total_votes_in_db, issued,
                   nposts, req, voter_id, vote, loaded, redis_status, resp>>

\* Line 126: database_votes_by_option.labels(option='a').set(cats_votes).
UpdSetA(t) ==
    /\ pc[t] = "upd_setA"
    /\ database_votes_by_option' = [database_votes_by_option EXCEPT !["a"] = snap[t].cats]
    /\ Goto(t, "upd_setB")
    /\ UNCHANGED <<redisUp, dbUp, dbHung, queue, rows, session_count,
                   active_sessions, votes_counter, redis_connection_status,
                   database_connection_status, total_votes_in_db, issued,
                   nposts, req, voter_id, vote, loaded, snap, redis_status,
                   resp>>

\* The second gauge written from cats_votes.
UpdSetB_FromCats(t) ==
    /\ pc[t] = "upd_setB"
    /\ database_votes_by_option' = [database_votes_by_option EXCEPT !["b"] = snap[t].cats]
    /\ Goto(t, "upd_setTotal")
    /\ UNCHANGED <<redisUp, dbUp, dbHung, queue, rows, session_count,
                   active_sessions, votes_counter, redis_connection_status,
                   database_connection_status, total_votes_in_db, issued,
                   nposts, req, voter_id, vote, loaded, snap, redis_status,
                   resp>>

\* Line 127: database_votes_by_option.labels(option='b').set(dogs_votes).
UpdSetB(t) ==
    /\ pc[t] = "upd_setB"
    /\ database_votes_by_option' = [database_votes_by_option EXCEPT !["b"] = snap[t].dogs]
    /\ Goto(t, "upd_setTotal")
    /\ UNCHANGED <<redisUp, dbUp, dbHung, queue, rows, session_count,
                   active_sessions, votes_counter, redis_connection_status,
                   database_connection_status, total_votes_in_db, issued,
                   nposts, req, voter_id, vote, loaded, snap, redis_status,
                   resp>>

\* Lines 128-134: total_votes_in_db.set(total_votes), cur.close() and
\* conn.close(), then the function returns.
UpdSetTotal(t) ==
    /\ pc[t] = "upd_setTotal"
    /\ total_votes_in_db' = snap[t].total
    /\ snap' = [snap EXCEPT ![t] = NoSnap]
    /\ Goto(t, AfterUpdate(t))
    /\ UNCHANGED <<redisUp, dbUp, dbHung, queue, rows, session_count,
                   active_sessions, votes_counter, redis_connection_status,
                   database_connection_status, database_votes_by_option,
                   issued, nposts, req, voter_id, vote, loaded, redis_status,
                   resp>>

\* Lines 142-149: metrics_updater sleeps and runs the next cycle.
Tick ==
    /\ pc[BgThread] = "sleep"
    /\ Goto(BgThread, "upd_connect")
    /\ UNCHANGED <<redisUp, dbUp, dbHung, shared, req, voter_id, vote, loaded, snap,
                   redis_status, resp>>

\* ------------------------------------------------- /metrics, /stats, /healthz

\* Line 210: generate_latest() reads the gauges and counters.
Generate(t) ==
    /\ pc[t] = "generate"
    /\ Return(t, [kind |-> "metrics", status |-> 200,
                  option_a |-> database_votes_by_option["a"],
                  option_b |-> database_votes_by_option["b"],
                  total |-> total_votes_in_db])
    /\ UNCHANGED <<redisUp, dbUp, dbHung, shared, req, voter_id, vote, loaded, snap,
                   redis_status>>

\* The JSON of lines 241-247.
StatsJson(s) ==
    [kind |-> "stats", status |-> 200, total_votes |-> s.total,
     cats_votes |-> s.cats, dogs_votes |-> s.dogs]

\* Lines 219-220 and 235-236: without a connection /stats answers zeros.
StatsConnect(t) ==
    /\ pc[t] = "stats_connect"
    /\ ~dbHung
    /\ get_pg_conn
    /\ IF dbUp
       THEN Goto(t, "stats_query") /\ UNCHANGED resp
       ELSE Return(t, StatsJson(NoSnap))
    /\ UNCHANGED <<redisUp, dbUp, dbHung, queue, rows, session_count,
                   active_sessions, votes_counter, redis_connection_status,
                   database_votes_by_option, total_votes_in_db, issued,
                   nposts, req, voter_id, vote, loaded, snap, redis_status>>

\* Lines 221-239: the grouped count, then cur.close() and conn.close(); a
\* failing query answers zeros from lines 237-239, where conn is not closed.
StatsQuery(t) ==
    /\ pc[t] = "stats_query"
    /\ ~dbHung
    /\ Return(t, StatsJson(IF dbUp THEN CountRows(GroupBy(rows, 1), NoSnap) ELSE NoSnap))
    /\ UNCHANGED <<redisUp, dbUp, dbHung, shared, req, voter_id, vote, loaded, snap,
                   redis_status>>

\* Lines 252-254 and 258-260: get_redis(), FAILED when it raises.
HealthzGetRedis(t) ==
    /\ pc[t] = "hz_redis"
    /\ IF redisUp THEN get_redis ELSE redis_connection_status' = 0
    /\ IF redisUp
       THEN Goto(t, "hz_ping") /\ UNCHANGED redis_status
       ELSE /\ redis_status' = [redis_status EXCEPT ![t] = "FAILED"]
            /\ Goto(t, "hz_db")
    /\ UNCHANGED <<redisUp, dbUp, dbHung, queue, rows, session_count,
                   active_sessions, votes_counter,
                   database_connection_status, database_votes_by_option,
                   total_votes_in_db, issued, nposts, req, voter_id, vote,
                   loaded, snap, resp>>

\* Lines 255-260: redis.ping().
HealthzPing(t) ==
    /\ pc[t] = "hz_ping"
    /\ redis_status' = [redis_status EXCEPT ![t] = IF redisUp THEN "OK" ELSE "FAILED"]
    /\ redis_connection_status' = (IF redisUp THEN 1 ELSE 0)
    /\ Goto(t, "hz_db")
    /\ UNCHANGED <<redisUp, dbUp, dbHung, queue, rows, session_count,
                   active_sessions, votes_counter,
                   database_connection_status, database_votes_by_option,
                   total_votes_in_db, issued, nposts, req, voter_id, vote,
                   loaded, snap, resp>>

\* The answer with a status that follows the two probes.
HealthJson_Deep(r, d) ==
    [kind |-> "health", code |-> 200,
     status |-> IF r = "OK" /\ d = "OK" THEN "OK" ELSE "FAILED",
     redis |-> r, database |-> d]

\* The JSON of lines 273-279.
HealthJson(r, d) ==
    [kind |-> "health", code |-> 200, status |-> "OK", redis |-> r, database |-> d]

\* Lines 262-279: get_pg_conn(), conn.close() on a connection, then the
\* answer.
HealthzDb(t) ==
    /\ pc[t] = "hz_db"
    /\ ~dbHung
    /\ get_pg_conn
    /\ Return(t, HealthJson(redis_status[t], IF dbUp THEN "OK" ELSE "FAILED"))
    /\ UNCHANGED <<redisUp, dbUp, dbHung, queue, rows, session_count,
                   active_sessions, votes_counter, redis_connection_status,
                   database_votes_by_option, total_votes_in_db, issued,
                   nposts, req, voter_id, vote, loaded, snap, redis_status>>

\* ------------------------------------------------------- environment

\* The queue store goes down or comes back.
RedisFlip ==
    /\ redisUp' = ~redisUp
    /\ UNCHANGED <<dbUp, dbHung, shared, locals>>

\* The relational store goes down or comes back.
DbFlip ==
    /\ dbUp' = ~dbUp
    /\ UNCHANGED <<redisUp, dbHung, shared, locals>>

\* The external worker takes the head of the queue and stores it as a row;
\* what it does with a vote that is neither key is not specified: it stores
\* the row or drops the event.
WorkerConsume ==
    /\ redisUp /\ dbUp /\ ~dbHung
    /\ queue # <<>>
    /\ queue' = Tail(queue)
    /\ \/ rows' = [rows EXCEPT ![Head(queue).vote] = @ + 1]
       \/ Head(queue).vote \notin {"a", "b"} /\ UNCHANGED rows
    /\ UNCHANGED <<redisUp, dbUp, dbHung, session_count, active_sessions,
                   votes_counter, redis_connection_status,
                   database_connection_status, database_votes_by_option,
                   total_votes_in_db, issued, nposts, locals>>

\* ------------------------------------------------------ specification

Handler(t) ==
    \/ Accept(t) \/ Finish(t)
    \/ ResolveSession(t) \/ SessStore(t) \/ SessGauge(t)
    \/ HelloGetRedis(t) \/ HelloForm(t) \/ HelloRpush(t) \/ HelloInc(t)
    \/ HelloRespond(t)
    \/ Generate(t)
    \/ StatsConnect(t) \/ StatsQuery(t)
    \/ HealthzGetRedis(t) \/ HealthzPing(t) \/ HealthzDb(t)

update_database_metrics(t) ==
    \/ UpdConnect(t) \/ UpdQuery(t) \/ UpdSetA(t) \/ UpdSetB(t) \/ UpdSetTotal(t)

Next ==
    \/ \E t \in ReqThreads : Handler(t)
    \/ \E t \in Threads : update_database_metrics(t)
    \/ Tick
    \/ WorkerConsume
    \/ RedisFlip
    \/ DbFlip

Spec == Init /\ [][Next]_vars


\* The same process with the queue store reachable throughout, under the
\* scheduling that progress rests on: the background thread and
\* every request thread that has a request in hand keep running, and the
\* worker keeps consuming while both stores answer.
LiveInit == Init /\ redisUp

LiveNext ==
    \/ \E t \in ReqThreads : Handler(t)
    \/ \E t \in Threads : update_database_metrics(t)
    \/ Tick
    \/ WorkerConsume
    \/ DbFlip

\* A request thread with a request in hand takes its next step.
Running(t) == pc[t] # "idle" /\ (Handler(t) \/ update_database_metrics(t))

Fairness ==
    /\ WF_vars(Tick \/ update_database_metrics(BgThread))
    /\ \A t \in ReqThreads : WF_vars(Running(t))
    /\ WF_vars(WorkerConsume)

LiveSpec == LiveInit /\ [][LiveNext]_vars /\ Fairness

\* ------------------------------------------------------------ properties

\* Thread t takes a step that leaves position l.
Leaves(t, l) == pc[t] = l /\ pc'[t] # l

\* The three published values: option a, option b, total.
Published == <<database_votes_by_option["a"], database_votes_by_option["b"],
               total_votes_in_db>>

\* No aggregation cycle is between its first and its last gauge write.
NoCycleMidPublication == \A t \in Threads : pc[t] \notin {"upd_setB", "upd_setTotal"}

\* C1: session idempotence on /. A request that carries a token the service
\* handed out keeps that token and allocates no session; a request without a
\* token is given a newly generated one and the session counter grows by one.
C1_SessionIdempotence ==
    [][\A t \in ReqThreads :
        /\ (Leaves(t, "hello") /\ req[t].cookie.present
                /\ req[t].cookie.value \in issued)
            => (voter_id'[t] = req[t].cookie.value /\ pc'[t] # "sess_store")
        /\ (Leaves(t, "hello") /\ ~req[t].cookie.present)
            => pc'[t] = "sess_store"
        /\ Leaves(t, "sess_store") => session_count' = session_count + 1]_vars

\* C2: sum invariant. With only rows of the two option keys in the store, every
\* completely published snapshot and every /stats answer has
\* total_votes = cats_votes + dogs_votes.
C2_SumInvariant ==
    rows["c"] = 0 =>
        /\ NoCycleMidPublication
            => total_votes_in_db
                 = database_votes_by_option["a"] + database_votes_by_option["b"]
        /\ \A t \in ReqThreads :
            resp[t].kind = "stats"
                => resp[t].total_votes = resp[t].cats_votes + resp[t].dogs_votes

\* C3: atomic snapshot publication. Every step that changes a published value
\* installs a whole snapshot: after it the three published values are the
\* cats, dogs and total one aggregation cycle computed.
C3_AtomicPublication ==
    [][Published' # Published
        => \E t \in Threads :
            Published' = <<snap[t].cats, snap[t].dogs, snap[t].total>>]_vars

\* C4: stale, not corrupt. A cycle whose connection or whose query fails ends
\* at that step with the published values as they were and the
\* relational-store gauge at 0.
C4_StaleNotCorrupt ==
    [][\A t \in Threads :
        ((Leaves(t, "upd_connect") \/ Leaves(t, "upd_query")) /\ ~dbUp)
            => /\ Published' = Published
               /\ database_connection_status' = 0
               /\ pc'[t] = AfterUpdate(t)]_vars

\* A failed cycle of the background loop has ended: the store is down, its
\* gauge is 0 and the snapshot published before is still there.
C4_Witness ==
    /\ pc[BgThread] = "sleep"
    /\ ~dbUp
    /\ database_connection_status = 0
    /\ total_votes_in_db = 1
    /\ database_votes_by_option["a"] = 1
    /\ database_votes_by_option["b"] = 0
    /\ rows["a"] = 1

\* C5: best-effort ingestion. When get_redis or the append fails in a POST, the
\* queue gauge is 0 after the step, nothing is appended, no live counter
\* moves, the handler goes on to render the page, and the answer to a request
\* to / is always the page with status 200.
C5_BestEffortIngestion ==
    /\ [][\A t \in ReqThreads :
            ((Leaves(t, "get_redis") \/ Leaves(t, "rpush")) /\ ~redisUp)
                => /\ redis_connection_status' = 0
                   /\ queue' = queue
                   /\ votes_counter' = votes_counter
                   /\ pc'[t] = "respond"]_vars
    /\ [](\A t \in ReqThreads :
            (pc[t] = "done" /\ req[t].route = "/")
                => (resp[t].kind = "page" /\ resp[t].status = 200))

\* A POST of vote a whose append failed has been answered with the page:
\* nothing is queued or counted and the queue gauge is 0.
C5_Witness ==
    \E t \in ReqThreads :
        /\ pc[t] = "done" /\ req[t].method = "POST" /\ req[t].form = "a"
        /\ resp[t].kind = "page" /\ resp[t].status = 200 /\ resp[t].vote = "a"
        /\ nposts = 1
        /\ queue = <<>>
        /\ \A k \in DOMAIN votes_counter : votes_counter[k] = 0
        /\ redis_connection_status = 0

\* C6: /healthz. The redis field is FAILED exactly when get_redis or the ping
\* failed, the database field is FAILED exactly when get_pg_conn failed, each
\* whatever the other store does, and status is always OK.
C6_HealthzAlwaysOk ==
    /\ [][\A t \in ReqThreads :
            /\ ((Leaves(t, "hz_redis") \/ Leaves(t, "hz_ping")) /\ pc'[t] = "hz_db")
                => redis_status'[t] = (IF redisUp THEN "OK" ELSE "FAILED")
            /\ Leaves(t, "hz_db")
                => /\ resp'[t].kind = "health"
                   /\ resp'[t].redis = redis_status[t]
                   /\ resp'[t].database = (IF dbUp THEN "OK" ELSE "FAILED")]_vars
    /\ [](\A t \in ReqThreads :
            (pc[t] = "done" /\ req[t].route = "/healthz")
                => (resp[t].kind = "health" /\ resp[t].status = "OK"
                    /\ resp[t].code = 200))

\* /healthz has answered OK with both stores reported FAILED.
C6_Witness ==
    \E t \in ReqThreads :
        /\ pc[t] = "done" /\ resp[t].kind = "health"
        /\ resp[t].status = "OK"
        /\ resp[t].redis = "FAILED" /\ resp[t].database = "FAILED"


\* Thread t is handling a POST whose vote is neither option key.
InvalidPost(t) == req[t].method = "POST" /\ req[t].form \notin {"a", "b", NoVote}

\* C8 as stated: a submitted option that is neither key is rejected, nothing
\* is appended to the queue and no live counter is incremented.
C8_InvalidRejected ==
    [][\A t \in ReqThreads :
        (InvalidPost(t) /\ pc'[t] # pc[t])
            => (queue' = queue /\ votes_counter' = votes_counter)]_vars

\* C8 amended: a submitted option that is neither key is not rejected. Its
\* event is appended with the option as submitted, the 'unknown' live counter
\* is incremented by one, and neither the a nor the b counter moves.
C8_InvalidCountedUnknown ==
    [][\A t \in ReqThreads :
        (InvalidPost(t) /\ pc'[t] # pc[t])
            => /\ votes_counter'["a"] = votes_counter["a"]
               /\ votes_counter'["b"] = votes_counter["b"]
               /\ (Leaves(t, "rpush") /\ redisUp)
                    => queue' = Append(queue, [voter_id |-> voter_id[t],
                                               vote |-> req[t].form])
               /\ Leaves(t, "inc")
                    => votes_counter'["unknown"] = votes_counter["unknown"] + 1]_vars

\* A POST of vote c has been answered: its event is the one in the queue and
\* only the 'unknown' counter has moved.
C8_Witness ==
    \E t \in ReqThreads :
        /\ pc[t] = "done" /\ InvalidPost(t)
        /\ queue = <<[voter_id |-> resp[t].cookie, vote |-> "c"]>>
        /\ votes_counter = [k \in {"a", "b", "unknown"} |->
                                IF k = "unknown" THEN 1 ELSE 0]

\* C9 as stated: an option that is neither key increments the 'unknown' live
\* counter by one and neither other counter, and never shows in total_votes:
\* with no row of a or b in the store, every total derived from it is 0.
C9_UnknownNotInTotal ==
    /\ [][\A t \in ReqThreads :
            (InvalidPost(t) /\ Leaves(t, "inc"))
                => /\ votes_counter'["unknown"] = votes_counter["unknown"] + 1
                   /\ votes_counter'["a"] = votes_counter["a"]
                   /\ votes_counter'["b"] = votes_counter["b"]]_vars
    /\ []((rows["a"] = 0 /\ rows["b"] = 0)
            => /\ total_votes_in_db = 0
               /\ \A t \in ReqThreads :
                    resp[t].kind = "stats" => resp[t].total_votes = 0)

\* C9 amended: the counter part as stated; the handler itself never writes
\* the relational store, and with no row of a or b in the store both option
\* counts derived from it are 0. total_votes does count the event once the
\* worker has stored it.
C9_UnknownNotInOptionCounts ==
    /\ [][\A t \in ReqThreads :
            /\ (InvalidPost(t) /\ Leaves(t, "inc"))
                => /\ votes_counter'["unknown"] = votes_counter["unknown"] + 1
                   /\ votes_counter'["a"] = votes_counter["a"]
                   /\ votes_counter'["b"] = votes_counter["b"]
            /\ pc'[t] # pc[t] => rows' = rows]_vars
    /\ []((rows["a"] = 0 /\ rows["b"] = 0)
            => /\ database_votes_by_option["a"] = 0
               /\ database_votes_by_option["b"] = 0
               /\ \A t \in ReqThreads :
                    resp[t].kind = "stats"
                        => (resp[t].cats_votes = 0 /\ resp[t].dogs_votes = 0))

\* The vote c was counted as 'unknown', the worker stored it, and a complete
\* snapshot shows it in the total and in neither option count.
C9_Witness ==
    /\ votes_counter["unknown"] = 1
    /\ rows = [v \in VoteSet |-> IF v = "c" THEN 1 ELSE 0]
    /\ NoCycleMidPublication
    /\ Published = <<0, 0, 1>>


\* What a cycle that reads the store now would compute.
RowsSnap == CountRows(GroupBy(rows, 1), NoSnap)

C10_LoopNeverStops ==
    /\ []<>(pc[BgThread] = "upd_connect")
    /\ <>[]dbUp
        => <>[](/\ database_connection_status = 1
                /\ Published = <<RowsSnap.cats, RowsSnap.dogs, RowsSnap.total>>)

\* The loop sleeps after a cycle that failed while a vote is stored and not
\* yet published.
C10_Witness ==
    /\ pc[BgThread] = "sleep"
    /\ database_connection_status = 0
    /\ RowsSnap.total = 1
    /\ total_votes_in_db = 0

\* C11 as stated: /stats returns the latest published snapshot. A /stats
\* request that finds the relational store unreachable, while no cycle is in
\* the middle of publishing, answers with the three published values.
C11_StatsReturnsPublished ==
    [][\A t \in ReqThreads :
        ((Leaves(t, "stats_connect") \/ Leaves(t, "stats_query")) /\ ~dbUp
                /\ NoCycleMidPublication)
            => /\ pc'[t] = "done"
               /\ resp'[t] = StatsJson([cats |-> database_votes_by_option["a"],
                                        dogs |-> database_votes_by_option["b"],
                                        total |-> total_votes_in_db])]_vars

\* ------------------------------------------- concurrent first contacts

\* Two request threads of the threaded server, both serving GET /.
SessThreads == {"r1", "r2"}

SessInit ==
    /\ redisUp \in BOOLEAN
    /\ dbUp \in BOOLEAN
    /\ dbHung = FALSE
    /\ queue = <<>>
    /\ rows = [v \in VoteSet |-> 0]
    /\ session_count = 0
    /\ active_sessions = 0
    /\ votes_counter = [k \in {"a", "b", "unknown"} |-> 0]
    /\ redis_connection_status = 0
    /\ database_connection_status = 0
    /\ database_votes_by_option = [k \in {"a", "b"} |-> 0]
    /\ total_votes_in_db = 0
    /\ issued = {}
    /\ nposts = 0
    /\ pc = [t \in SessThreads |-> "idle"]
    /\ req = [t \in SessThreads |-> NoReq]
    /\ voter_id = [t \in SessThreads |-> <<>>]
    /\ vote = [t \in SessThreads |-> NoVote]
    /\ loaded = [t \in SessThreads |-> 0]
    /\ snap = [t \in SessThreads |-> NoSnap]
    /\ redis_status = [t \in SessThreads |-> "none"]
    /\ resp = [t \in SessThreads |-> NoResp]

\* A request thread takes a GET /.
SessAccept(t) ==
    /\ Accept(t)
    /\ req'[t].route = "/"
    /\ req'[t].method = "GET"

SessNext ==
    \E t \in SessThreads :
        \/ SessAccept(t) \/ Finish(t)
        \/ ResolveSession(t) \/ SessStore(t) \/ SessGauge(t)
        \/ HelloRespond(t)

SessSpec == SessInit /\ [][SessNext]_vars

\* C12: the distinct-session counter never goes down. No step lowers
\* session_count or the active_sessions gauge, whatever the interleaving of
\* the request threads.
C12_SessionCounterMonotone ==
    [][/\ session_count' >= session_count
       /\ active_sessions' >= active_sessions]_vars

\* ------------------------------------------------- a store that hangs

\* The relational store stops answering: it refuses nothing and answers
\* nothing, from now on. psycopg2.connect (lines 91-96) is given no
\* connect_timeout and the queries no statement timeout, so the calls to it
\* block. A queue store that stops answering is redisUp = FALSE: the client
\* of line 79 has socket_timeout=5, so the call raises.
DbHang ==
    /\ ~dbHung
    /\ dbHung' = TRUE
    /\ UNCHANGED <<redisUp, dbUp, shared, locals>>

HangNext ==
    \/ Next
    \/ DbHang

\* The process under the scheduling of Fairness, with stores that can fail
\* and a relational store that can hang.
HangSpec == Init /\ [][HangNext]_vars /\ Fairness

\* C13: every request completes. A request thread that has a request in hand
\* eventually has its response, whether the stores answer, refuse or hang.
C13_RequestsComplete ==
    \A t \in ReqThreads : (pc[t] # "idle") ~> (pc[t] = "done")

\* ------------------------------------------------ the vote handler

\* C14: the refresh after a vote is ordered after the publish and is best
\* effort. A POST starts its refresh only by the step that increments the
\* live counter, and reaches that step only by a successful append; a refresh
\* whose connection or query fails leaves the queue, the live counters and
\* the queue gauge as they were and goes on to render the page; the answer
\* is the page with status 200.
C14_RefreshBestEffort ==
    /\ [][\A t \in ReqThreads :
            req[t].route = "/"
                => /\ (pc'[t] = "upd_connect" /\ pc[t] # "upd_connect")
                        => /\ pc[t] = "inc"
                           /\ votes_counter'[VoteType(vote[t])]
                                = votes_counter[VoteType(vote[t])] + 1
                   /\ (pc'[t] = "inc" /\ pc[t] # "inc")
                        => /\ pc[t] = "rpush" /\ redisUp
                           /\ queue' = Append(queue, [voter_id |-> voter_id[t],
                                                      vote |-> vote[t]])
                   /\ ((Leaves(t, "upd_connect") \/ Leaves(t, "upd_query"))
                            /\ ~dbUp)
                        => /\ queue' = queue
                           /\ votes_counter' = votes_counter
                           /\ redis_connection_status' = redis_connection_status
                           /\ pc'[t] = "respond"]_vars
    /\ [](\A t \in ReqThreads :
            (pc[t] = "done" /\ req[t].route = "/" /\ req[t].method = "POST")
                => (resp[t].kind = "page" /\ resp[t].status = 200
                    /\ resp[t].vote = vote[t]))

\* A POST of vote a was answered with the page after its refresh failed: the
\* event is queued and counted, the queue gauge is 1, the relational-store
\* gauge is 0 and nothing was published.
C14_Witness ==
    \E t \in ReqThreads :
        /\ pc[t] = "done" /\ req[t].method = "POST" /\ req[t].form = "a"
        /\ resp[t].kind = "page" /\ resp[t].status = 200
        /\ queue = <<[voter_id |-> voter_id[t], vote |-> "a"]>>
        /\ votes_counter["a"] = 1
        /\ redis_connection_status = 1
        /\ ~dbUp /\ database_connection_status = 0
        /\ total_votes_in_db = 0

\* -------------------------------------------- the service and its queue

\* An event an earlier run of the service left in the list 'votes': the
\* list lives in the queue store and outlasts the process.
PriorEvent == [voter_id |-> NewVoterId(16), vote |-> "b"]

\* The process starts with PriorEvent in the list.
QueueInit ==
    /\ redisUp \in BOOLEAN
    /\ dbUp \in BOOLEAN
    /\ dbHung = FALSE
    /\ queue = <<PriorEvent>>
    /\ rows = [v \in VoteSet |-> 0]
    /\ session_count = 0
    /\ active_sessions = 0
    /\ votes_counter = [k \in {"a", "b", "unknown"} |-> 0]
    /\ redis_connection_status = 0
    /\ database_connection_status = 0
    /\ database_votes_by_option = [k \in {"a", "b"} |-> 0]
    /\ total_votes_in_db = 0
    /\ issued = {}
    /\ nposts = 0
    /\ pc = [t \in Threads |-> IF t = BgThread THEN "upd_connect" ELSE "idle"]
    /\ req = [t \in Threads |-> NoReq]
    /\ voter_id = [t \in Threads |-> <<>>]
    /\ vote = [t \in Threads |-> NoVote]
    /\ loaded = [t \in Threads |-> 0]
    /\ snap = [t \in Threads |-> NoSnap]
    /\ redis_status = [t \in Threads |-> "none"]
    /\ resp = [t \in Threads |-> NoResp]

\* Every operation of the service, and the stores going down and coming
\* back; nothing consumes the list.
QueueNext ==
    \/ \E t \in ReqThreads : Handler(t)
    \/ \E t \in Threads : update_database_metrics(t)
    \/ Tick
    \/ RedisFlip
    \/ DbFlip

QueueSpec == QueueInit /\ [][QueueNext]_vars

\* The event hello builds at line 179 from its request.
EventOf(t) ==
    [voter_id |-> IF req[t].cookie.value # <<>> THEN req[t].cookie.value
                  ELSE voter_id[t],
     vote |-> req[t].form]

\* C15: the service only appends at the tail of the list. A step of the
\* service leaves the list as it is or appends one event at its tail, the
\* append is the rpush of a POST and its event carries the resolved token and
\* the submitted option, every rpush that the store answers appends, and the
\* events already in the list keep their places.
C15_AppendOnlyTail ==
    /\ [][\/ queue' = queue
          \/ \E t \in ReqThreads :
                /\ Leaves(t, "rpush") /\ req[t].method = "POST"
                /\ queue' = Append(queue, EventOf(t))]_vars
    /\ [][\A t \in ReqThreads :
            (Leaves(t, "rpush") /\ redisUp)
                => (queue' = Append(queue, EventOf(t)) /\ pc'[t] = "inc")]_vars
    /\ [](Len(queue) >= 1 /\ queue[1] = PriorEvent)

\* A POST of vote a was answered: its event, with the token of the response's
\* cookie, is in the list behind the event that was there before.
C15_Witness ==
    \E t \in ReqThreads :
        /\ pc[t] = "done" /\ req[t].method = "POST"
        /\ queue = <<PriorEvent, [voter_id |-> resp[t].cookie, vote |-> "a"]>>

\* ------------------------------------------ aggregation over any table

\* Rows of one vote value that the table holds at the start.
MaxRows == 2

\* The process starts against a table votes that holds any rows.
AggInit ==
    /\ redisUp \in BOOLEAN
    /\ dbUp \in BOOLEAN
    /\ dbHung = FALSE
    /\ queue = <<>>
    /\ rows \in [VoteSet -> 0..MaxRows]
    /\ session_count = 0
    /\ active_sessions = 0
    /\ votes_counter = [k \in {"a", "b", "unknown"} |-> 0]
    /\ redis_connection_status = 0
    /\ database_connection_status = 0
    /\ database_votes_by_option = [k \in {"a", "b"} |-> 0]
    /\ total_votes_in_db = 0
    /\ issued = {}
    /\ nposts = 0
    /\ pc = [t \in Threads |-> IF t = BgThread THEN "upd_connect" ELSE "idle"]
    /\ req = [t \in Threads |-> NoReq]
    /\ voter_id = [t \in Threads |-> <<>>]
    /\ vote = [t \in Threads |-> NoVote]
    /\ loaded = [t \in Threads |-> 0]
    /\ snap = [t \in Threads |-> NoSnap]
    /\ redis_status = [t \in Threads |-> "none"]
    /\ resp = [t \in Threads |-> NoResp]

\* A request thread takes a GET /metrics or a GET /stats.
AggAccept(t) ==
    /\ Accept(t)
    /\ req'[t].route \in {"/metrics", "/stats"}

\* The aggregation cycles of the background loop and of /metrics, and
\* /stats, over a table that nothing writes.
AggNext ==
    \/ \E t \in ReqThreads :
        \/ AggAccept(t) \/ Finish(t)
        \/ Generate(t)
        \/ StatsConnect(t) \/ StatsQuery(t)
    \/ \E t \in Threads : update_database_metrics(t)
    \/ Tick
    \/ DbFlip

AggSpec == AggInit /\ [][AggNext]_vars

\* The counts of the table: rows of a, rows of b, all rows.
TableCounts ==
    [cats |-> rows["a"], dogs |-> rows["b"],
     total |-> rows["a"] + rows["b"] + rows["c"]]

\* C16: the aggregation result. A cycle whose query succeeds computes, and
\* then publishes gauge by gauge, the number of rows of a, the number of rows
\* of b and the number of all rows, rows of any other value included in the
\* total only; /stats answers the same three numbers.
C16_AggregationResult ==
    [][/\ \A t \in Threads :
            /\ (Leaves(t, "upd_query") /\ dbUp) => snap'[t] = TableCounts
            /\ Leaves(t, "upd_setA")
                => database_votes_by_option'["a"] = TableCounts.cats
            /\ Leaves(t, "upd_setB")
                => database_votes_by_option'["b"] = TableCounts.dogs
            /\ Leaves(t, "upd_setTotal")
                => total_votes_in_db' = TableCounts.total
       /\ \A t \in ReqThreads :
            (Leaves(t, "stats_query") /\ dbUp)
                => resp'[t] = StatsJson(TableCounts)]_vars

\* Over two rows of a, one of b and one of another value a cycle of the
\* background loop has published 2, 1 and 4, and /stats has answered the same.
C16_Witness ==
    /\ rows = [v \in VoteSet |-> IF v = "a" THEN 2 ELSE 1]
    /\ pc[BgThread] = "sleep"
    /\ Published = <<2, 1, 4>>
    /\ \E t \in ReqThreads :
        /\ pc[t] = "done"
        /\ resp[t] = StatsJson([cats |-> 2, dogs |-> 1, total |-> 4])

\* C17: the token is an injective encoding of the draw. A token hello
\* generates is not empty and is the token of one draw only.
C17_TokenInjective ==
    [][\A t \in ReqThreads :
        (Leaves(t, "hello") /\ pc'[t] = "sess_store")
            => /\ voter_id'[t] # <<>>
               /\ Cardinality({d \in 0..MaxDraw : NewVoterId(d) = voter_id'[t]}) = 1]_vars

\* The live counters summed over their labels.
CounterSum == votes_counter["a"] + votes_counter["b"] + votes_counter["unknown"]

\* Request threads between their rpush (line 180) and their inc (line 183).
BeforeInc == {t \in ReqThreads : pc[t] = "inc"}

\* C18: the live counters match the appends. The counters sum to the number
\* of events the process has appended, less the appends whose increment is
\* the thread's next statement; with every request answered the two are
\* equal; and a step that moves a counter adds one to one label, the label of
\* the vote of the thread that takes it.
C18_CountersMatchAppends ==
    /\ [](CounterSum + Cardinality(BeforeInc) = Len(queue) - Len(<<PriorEvent>>))
    /\ []((\A t \in ReqThreads : pc[t] \in {"idle", "done"})
            => CounterSum = Len(queue) - Len(<<PriorEvent>>))
    /\ [][votes_counter' # votes_counter
            => \E t \in ReqThreads :
                /\ Leaves(t, "inc")
                /\ votes_counter' =
                     [votes_counter EXCEPT ![VoteType(req[t].form)] = @ + 1]]_vars

\* A POST of vote b was answered: one event was appended and the counters
\* are b = 1 and nothing else.
C18_Witness ==
    \E t \in ReqThreads :
        /\ pc[t] = "done" /\ req[t].method = "POST" /\ req[t].form = "b"
        /\ Len(queue) = 2 /\ queue[2].vote = "b"
        /\ votes_counter = [k \in {"a", "b", "unknown"} |-> IF k = "b" THEN 1 ELSE 0]

\* C19: a POST marks the queue store down only for a queue failure. A step of
\* a POST that takes the queue gauge from up to 0 is a get_redis or an rpush
\* that the queue store did not answer.
C19_GaugeDownOnlyOnQueueFailure ==
    [][\A t \in ReqThreads :
        (/\ req[t].route = "/" /\ req[t].method = "POST"
         /\ pc'[t] # pc[t]
         /\ redis_connection_status # 0 /\ redis_connection_status' = 0)
            => /\ ~redisUp
               /\ pc[t] \in {"get_redis", "rpush"}]_vars

\* ------------------------------------------------------- connections

\* Thread t holds a connection it opened and has not closed: it is between
\* conn = get_pg_conn() (lines 107, 219) and conn.close() (lines 131, 234).
\* /healthz opens and closes within HealthzDb (lines 264-266).
ConnOpen(t) ==
    pc[t] \in {"upd_query", "upd_setA", "upd_setB", "upd_setTotal", "stats_query"}

\* Thread t takes a step that runs conn.close(): the end of a successful
\* cycle (line 131) or of a successful /stats query (line 234).
ClosesConn(t) ==
    \/ Leaves(t, "upd_setTotal")
    \/ Leaves(t, "stats_query") /\ dbUp

\* C20: no connection is leaked. A thread that holds an open connection
\* leaves the operation that opened it only by a step that closes it.
C20_NoConnectionLeak ==
    [][\A t \in Threads : (ConnOpen(t) /\ ~ConnOpen(t)') => ClosesConn(t)]_vars

====
